---- MODULE Spec2Model ----
(***************************************************************************)
(* pariVaha: the pull engine of src/parivaha/sync.py (SyncService._pull)   *)
(* as a state machine over a remote page store, a local vault and the      *)
(* persisted sync log.                                                     *)
(*                                                                         *)
(* Titles are small integers.  A path is the sequence of its segments; the *)
(* last segment is the file stem, so <<1, 2, 2>> is "1/2/2.md" as a        *)
(* document, "1/2/2.canvas" as a side-artifact and "1/2/2" as the target   *)
(* of an internal [[...]] link.  Time is counted in seconds.               *)
(***************************************************************************)
EXTENDS Integers, Sequences, FiniteSets, TLC

\* ------------------------------------------------------------------ bounds
NumNodes == 3
NumTitles == 4
MaxEdits == 2
MaxRuns == 3
MaxCrashes == 1
MaxRecoveryRuns == 4
MaxDays == 1

\* --------------------------------------------------------- program constants
HygieneHours == 24
WatermarkGuard == 1

Ids == 1..NumNodes
Titles == 1..NumTitles
NoParent == 0
NoTime == 0
NoPath == << >>

VARIABLES
    remote,        \* the remote store: id -> page
    clock,         \* wall clock, in seconds
    files,         \* the vault's documents: path -> content
    canvases,      \* the vault's side-artifacts (paths)
    dirs,          \* the vault's directories below its root
    disklog,       \* the persisted sync log: [last_pull, pages]
    pc,            \* where the pull run stands
    last_pull,     \* the watermark loaded by the run (prev_last_pull)
    pages_log,     \* the run's in-memory log entries
    delta_pages,   \* the pages the delta query returned: id -> snapshot
    hygiene_due,   \* the run's hygiene flag
    page_map,      \* the expanded set: id -> snapshot
    todo,          \* the pages of page_map still to be written
    touched,       \* whether the run has mutated the local tree
    written,       \* the ids whose document the run's Writer wrote
    patched,       \* the ids the run patched remotely
    log_at_start,  \* the persisted log as the run loaded it
    follows_clean, \* the run started right after a completed run, no remote change between
    recovering,    \* the run started right after an interrupted run, no remote change between
    conflict,      \* a move of this run or of the interrupted one found its destination occupied
    last_event,    \* "none", "completed", "fastexit", "crashed", "edited"
    pre,           \* the vault, the log and the store when the run (or the run it
                   \* retries after an interruption) started
    runs, edits, crashes,
    push_todo,     \* the documents the push run has still to visit (paths)
    path_to_page   \* the push run's cache: document path -> remote id

pushVars == <<push_todo, path_to_page>>
vaultVars == <<files, canvases, dirs>>
runVars == <<last_pull, pages_log, delta_pages, hygiene_due, page_map, todo>>
ghostVars == <<touched, written, patched, log_at_start, follows_clean, recovering,
               conflict, pre>>
vars == <<remote, clock, files, canvases, dirs, disklog, pc, last_pull, pages_log,
          delta_pages, hygiene_due, page_map, todo, touched, written, patched,
          log_at_start, follows_clean, recovering, conflict, last_event, pre,
          runs, edits, crashes, push_todo, path_to_page>>

\* ------------------------------------------------------------ sequences
Front(s) == SubSeq(s, 1, Len(s) - 1)
Last(s) == s[Len(s)]
IsPrefix(p, q) == Len(p) <= Len(q) /\ SubSeq(q, 1, Len(p)) = p
Prefixes(d) == {SubSeq(d, 1, k) : k \in 1..Len(d)}
SetMax(S) == CHOOSE x \in S : \A y \in S : y <= x

\* ------------------------------------------------------- the remote store
\* What the remote API returns for a page: its fields at the time of the call.
Snapshot(pg) == [title |-> pg.title, parent |-> pg.parent, edited |-> pg.edited,
                 canvas |-> pg.canvas, archived |-> pg.archived]

\* nm.get_pages(filter = last_edited_time after `since`): the pages edited after
\* `since`; `listsArchived` says whether this listing includes archived pages.
DeltaQuery(rm, since, listsArchived) ==
    {n \in DOMAIN rm : rm[n].edited > since /\ (listsArchived \/ ~rm[n].archived)}

\* nm.get_pages(retrieve_all = True)
ListAll(rm, listsArchived) ==
    {n \in DOMAIN rm : listsArchived \/ ~rm[n].archived}

\* page_map.get(pid) or nm.get_page(pid)
Lookup(pm, rm, n) == IF n \in DOMAIN pm THEN pm[n] ELSE Snapshot(rm[n])

\* The queue loop of _pull: the delta closed under "Parent item".
RECURSIVE Expand(_, _, _)
Expand(queue, seen, rm) ==
    IF queue = {} THEN seen
    ELSE LET pid == CHOOSE n \in queue : TRUE
             parent_id == rm[pid].parent
             more == IF parent_id # NoParent /\ parent_id \notin seen
                        /\ parent_id \in DOMAIN rm
                     THEN {parent_id} ELSE {}
         IN Expand((queue \ {pid}) \cup more, seen \cup {pid}, rm)

\* A variant of the walk that stops at the direct parent.
PathPartsOneLevel(pg, pm, rm, fuel) ==
    IF pg.parent = NoParent \/ fuel = 0 THEN <<pg.title>>
    ELSE <<Lookup(pm, rm, pg.parent).title, pg.title>>

\* write_page's walk "up to the root": the titles from the root down to `pg`.
RECURSIVE PathParts(_, _, _, _)
PathParts(pg, pm, rm, fuel) ==
    IF pg.parent = NoParent \/ fuel = 0 THEN <<pg.title>>
    ELSE PathParts(Lookup(pm, rm, pg.parent), pm, rm, fuel - 1) \o <<pg.title>>

\* rel_dir = Path(*parts); md_path = rel_dir / f"{title}.md"
RelDir(pg, pm, rm) == PathParts(pg, pm, rm, NumNodes)
MdPath(pg, pm, rm) == RelDir(pg, pm, rm) \o <<pg.title>>

\* _depth: the number of parent links followed through page_map.
RECURSIVE Depth(_, _, _)
Depth(pg, pm, fuel) ==
    IF pg.parent = NoParent \/ fuel = 0 THEN 0
    ELSE IF pg.parent \in DOMAIN pm THEN 1 + Depth(pm[pg.parent], pm, fuel - 1)
    ELSE 1

\* --------------------------------------------------------------- the vault
\* A world is what write_page reads and mutates locally:
\* [files, canvases, dirs, plog, touched, conflict].
Under(d, p) == IsPrefix(d, Front(p))
Rebase(p, old, new) == new \o SubSeq(p, Len(old) + 1, Len(p))

\* any(d.iterdir()) in a vault whose root holds nothing but the vault's content.
DirNonEmptyNoSyncFolder(w, d) ==
    \/ \E p \in DOMAIN w.files : Front(p) = d
    \/ \E p \in w.canvases : Front(p) = d
    \/ \E e \in w.dirs : Len(e) = Len(d) + 1 /\ IsPrefix(d, e)

\* any(d.iterdir()).  The vault root (NoPath) holds the .sync folder, which _pull
\* creates before anything else.
DirNonEmpty(w, d) ==
    \/ d = NoPath
    \/ \E p \in DOMAIN w.files : Front(p) = d
    \/ \E p \in w.canvases : Front(p) = d
    \/ \E e \in w.dirs : Len(e) = Len(d) + 1 /\ IsPrefix(d, e)

\* d.mkdir(parents=True, exist_ok=True)
MkdirP(w, d) ==
    [w EXCEPT !.dirs = @ \cup Prefixes(d),
              !.touched = @ \/ ~(Prefixes(d) \subseteq w.dirs)]

\* shutil.rmtree(d)
RmTree(w, d) ==
    [w EXCEPT !.files = [p \in {q \in DOMAIN w.files : ~Under(d, q)} |-> w.files[p]],
              !.canvases = {p \in @ : ~Under(d, p)},
              !.dirs = {e \in @ : ~IsPrefix(d, e)},
              !.touched = TRUE]

\* path.unlink() of a document
Unlink(w, p) ==
    [w EXCEPT !.files = [q \in DOMAIN w.files \ {p} |-> w.files[q]],
              !.touched = TRUE]

\* shutil.move(old_dir, new_dir), new_dir not existing
MoveTree(w, old, new) ==
    LET to(p) == IF Under(old, p) THEN Rebase(p, old, new) ELSE p
        keys == {to(p) : p \in DOMAIN w.files}
    IN [w EXCEPT
          !.files = [q \in keys |-> w.files[CHOOSE p \in DOMAIN w.files : to(p) = q]],
          !.canvases = {to(p) : p \in @},
          !.dirs = {IF IsPrefix(old, e) THEN Rebase(e, old, new) ELSE e : e \in @},
          !.touched = TRUE]

\* _purge_empty_dirs(start): the walk goes up while the directory is empty; above
\* the vault root it is outside the vault.
RECURSIVE PurgeEmptyDirs(_, _)
PurgeEmptyDirs(w, start) ==
    IF start \in w.dirs /\ ~DirNonEmpty(w, start)
    THEN PurgeEmptyDirs([w EXCEPT !.dirs = @ \ {start}, !.touched = TRUE], Front(start))
    ELSE w

\* update_inbound_links: every [[old_ref]] of every document becomes [[new_ref]];
\* a document is written only if its text changed.
RewriteLinks(doc, old_ref, new_ref) ==
    [doc EXCEPT !.parent = IF @ = old_ref THEN new_ref ELSE @,
                !.sib = IF @ = old_ref THEN new_ref ELSE @]

UpdateInboundLinks(w, old_path, new_path) ==
    LET new_files == [p \in DOMAIN w.files |-> RewriteLinks(w.files[p], old_path, new_path)]
    IN [w EXCEPT !.files = new_files, !.touched = @ \/ new_files # w.files]

\* ------------------------------------------------------------- write_page
\* The patch of every logged path under old_dir (p.startswith(old_prefix + "/")).
RebaseLog(plog, old_dir, new_dir) ==
    [m \in DOMAIN plog |->
        IF IsPrefix(old_dir, plog[m].path) /\ Len(plog[m].path) > Len(old_dir)
        THEN [plog[m] EXCEPT !.path = Rebase(@, old_dir, new_dir)]
        ELSE plog[m]]

\* The folder branch of the move: the old directory goes to the new place, whatever
\* stands there is removed first.  shutil.move raises when the source is gone or
\* the target lies inside the source; the except clause then ends the move.
FolderMove(w, old_dir, new_dir, md_path) ==
    IF old_dir = new_dir THEN w
    ELSE LET w1 == MkdirP(w, Front(new_dir))
             w2 == IF new_dir \in w1.dirs
                   THEN [RmTree(w1, new_dir) EXCEPT !.conflict = TRUE]
                   ELSE w1
         IN IF old_dir \notin w2.dirs \/ IsPrefix(old_dir, new_dir) THEN w2
            ELSE LET w3 == MoveTree(w2, old_dir, new_dir)
                     old_md_in_new == new_dir \o <<Last(old_dir)>>
                     w4 == IF old_md_in_new \in DOMAIN w3.files /\ old_md_in_new # md_path
                           THEN Unlink(w3, old_md_in_new)
                           ELSE w3
                 IN [w4 EXCEPT !.plog = RebaseLog(@, old_dir, new_dir)]

\* The single-file branch: shutil.move raises when the old document is missing.
FileMove(w, old_path, md_path) ==
    LET w1 == MkdirP(w, Front(md_path))
    IN IF old_path \notin DOMAIN w1.files THEN w1
       ELSE IF old_path = md_path THEN w1
       ELSE LET doc == w1.files[old_path]
                w2 == Unlink(w1, old_path)
                w3 == [w2 EXCEPT !.files = (md_path :> doc) @@ @]
            IN PurgeEmptyDirs(w3, Front(old_path))

\* "Detect move / rename": the try block, then update_inbound_links.
MoveOrRename(w, old_path, md_path) ==
    LET old_dir == Front(old_path)
        new_dir == Front(md_path)
        has_children == old_dir \in w.dirs /\ DirNonEmpty(w, old_dir)
        moved == IF has_children
                 THEN FolderMove(w, old_dir, new_dir, md_path)
                 ELSE FileMove(w, old_path, md_path)
    IN UpdateInboundLinks(moved, old_path, md_path)

\* need_write
NeedWrite(w, pg, has_old, old_edited, old_path, md_path) ==
    \/ md_path \notin DOMAIN w.files
    \/ ~has_old
    \/ pg.edited # old_edited
    \/ old_path # md_path

\* A variant that patches the page whenever its document is written.
NeedPatchAlways(has_old, old_path, md_path, is_root, old_parent_id) == TRUE

\* "Only hit the API if path OR tag set changed"
NeedPatch(has_old, old_path, md_path, is_root, old_parent_id) ==
    \/ ~has_old
    \/ old_path # md_path
    \/ is_root # (old_parent_id = NoParent)

\* The document write_remote_page emits for page n.
RenderDoc(n, pg, rel_dir) ==
    [owner |-> n,
     root |-> pg.parent = NoParent,
     parent |-> IF pg.parent = NoParent \/ Len(rel_dir) < 2 THEN NoPath
                ELSE Front(rel_dir) \o <<Last(Front(rel_dir))>>,
     canvas |-> pg.canvas,
     sib |-> NoPath]

\* The side-artifact: created when the flag is set, removed (and the document
\* rewritten) when it is cleared.
SyncCanvas(w, checked, canvas_file) ==
    IF checked /\ canvas_file \notin w.canvases
    THEN [MkdirP(w, Front(canvas_file)) EXCEPT !.canvases = @ \cup {canvas_file},
                                              !.touched = TRUE]
    ELSE IF ~checked /\ canvas_file \in w.canvases
    THEN [w EXCEPT !.canvases = @ \ {canvas_file}, !.touched = TRUE]
    ELSE w

\* A patch that also moves the page to the trash.
UpdatePageTrashing(rm, pid, path, now) ==
    [rm EXCEPT ![pid].opath = path, ![pid].edited = now, ![pid].archived = TRUE]

\* nm.update_page(pid, {path, ...}) with mark_sync_complete: bookkeeping
\* properties of page pid are patched, which moves its last-edited time.
UpdatePage(rm, pid, path, now) ==
    [rm EXCEPT ![pid].opath = path, ![pid].edited = now]

\* write_page(pg) for pg = pm[n], at time `now`:
\* [w: the world after, at_refetch: the world when the page is fetched again,
\*  remote: the store after, wrote, patched].
WritePageResult(w, rm, pm, n, now) ==
    LET pg == pm[n]
        direct_parent_id == pg.parent
        rel_dir == RelDir(pg, pm, rm)
        md_path == MdPath(pg, pm, rm)
        has_old == n \in DOMAIN w.plog
        old_parent_id == IF has_old THEN w.plog[n].parent_id ELSE NoParent
        old_path == IF has_old THEN w.plog[n].path ELSE NoPath
        old_edited == IF has_old THEN w.plog[n].last_edited ELSE NoTime
        w1 == IF has_old /\ (old_path # md_path \/ old_parent_id # direct_parent_id)
              THEN MoveOrRename(w, old_path, md_path)
              ELSE w
        need_write == NeedWrite(w1, pg, has_old, old_edited, old_path, md_path)
        is_root == direct_parent_id = NoParent
        w2 == IF need_write
              THEN [MkdirP(w1, rel_dir) EXCEPT
                       !.files = (md_path :> RenderDoc(n, pg, rel_dir)) @@ @,
                       !.touched = TRUE]
              ELSE w1
        do_patch == need_write /\ NeedPatch(has_old, old_path, md_path, is_root, old_parent_id)
        rm1 == IF do_patch THEN UpdatePage(rm, n, md_path, now) ELSE rm
        pg2 == IF need_write THEN Snapshot(rm1[n]) ELSE pg
        entry == [parent_id |-> direct_parent_id,
                  last_edited |-> pg2.edited,
                  path |-> md_path]
        w3 == [w2 EXCEPT !.plog = (n :> entry) @@ @]
    IN [w |-> SyncCanvas(w3, pg2.canvas, md_path),
        at_refetch |-> w2,
        remote |-> rm1,
        wrote |-> need_write,
        patched |-> do_patch]

\* ----------------------------------------------- deletions and navigation
\* Step 5: every logged id that is not alive loses its document (with the empty
\* directories above it) and its log entry.
RECURSIVE DeleteDead(_, _)
DeleteDead(w, dead) ==
    IF dead = {} THEN w
    ELSE LET pid == CHOOSE n \in dead : \A m \in dead : n <= m
             md == w.plog[pid].path
             w1 == IF md \in DOMAIN w.files
                   THEN PurgeEmptyDirs(Unlink(w, md), Front(md))
                   ELSE w
             w2 == [w1 EXCEPT !.plog = [m \in DOMAIN w1.plog \ {pid} |-> w1.plog[m]]]
         IN DeleteDead(w2, dead \ {pid})

\* alive_ids
AliveIds(rm, listsArchived) == {n \in ListAll(rm, listsArchived) : ~rm[n].archived}

\* root_ids sorted by title: the orders sorted() can return.
SortedRoots(plog, pm, rm) ==
    LET root_ids == {n \in DOMAIN plog : plog[n].parent_id = NoParent}
        k == Cardinality(root_ids)
    IN {srt \in [1..k -> root_ids] :
          /\ \A i, j \in 1..k : i # j => srt[i] # srt[j]
          /\ \A i, j \in 1..k :
                i < j => Lookup(pm, rm, srt[i]).title <= Lookup(pm, rm, srt[j]).title}

\* _write_sibling_block from position i on.
RECURSIVE WriteSiblingBlock(_, _, _, _, _)
WriteSiblingBlock(w, srt, i, pm, rm) ==
    IF i > Len(srt) THEN w
    ELSE LET md == w.plog[srt[i]].path
             sib_title == Lookup(pm, rm, srt[i + 1]).title
             link == IF i < Len(srt) THEN <<sib_title, sib_title>> ELSE NoPath
             w1 == IF md \notin DOMAIN w.files THEN w
                   ELSE [w EXCEPT !.files[md].sib = link, !.touched = TRUE]
         IN WriteSiblingBlock(w1, srt, i + 1, pm, rm)

\* A variant that commits the latest edit time itself.
NewLastPullNoGuard(delta, prev_last_pull, now) ==
    IF DOMAIN delta # {}
    THEN SetMax({delta[n].edited : n \in DOMAIN delta})
    ELSE IF prev_last_pull # NoTime THEN prev_last_pull ELSE now

\* Step 7: the watermark the run commits.
NewLastPull(delta, prev_last_pull, now) ==
    IF DOMAIN delta # {}
    THEN SetMax({delta[n].edited : n \in DOMAIN delta}) - WatermarkGuard
    ELSE IF prev_last_pull # NoTime THEN prev_last_pull ELSE now

\* A variant of the staleness test that never looks at the age of the watermark.
HygieneDueNoAge(lp, now) == lp = NoTime

\* hygiene_due
HygieneDue(lp, now) ==
    lp = NoTime \/ lp < now - HygieneHours * 60 * 60

\* A variant of the early return that does not ask whether the re-scan is due.
FastExitNoHygiene(delta, lp, due) == delta = {} /\ lp # NoTime

\* "if not delta_pages and last_pull and not hygiene_due: return"
FastExit(delta, lp, due) == delta = {} /\ lp # NoTime /\ ~due

\* ------------------------------------------------------------ the machine
EmptyFn == [x \in {} |-> x]
EmptyLog == [last_pull |-> NoTime, pages |-> EmptyFn]
NoPre == [files |-> EmptyFn, canvases |-> {}, pages |-> EmptyFn, remote |-> EmptyFn]

World == [files |-> files, canvases |-> canvases, dirs |-> dirs, plog |-> pages_log,
          touched |-> touched, conflict |-> conflict]

\* The stores a fresh installation can meet: k pages, page i titled i, each page's
\* parent among the pages before it, at most the first page with a side-artifact.
InitialStores ==
    {[n \in 1..k |-> [title |-> n, parent |-> par[n], edited |-> 10 + n,
                      archived |-> FALSE, canvas |-> n \in cv, opath |-> NoPath]] :
        <<k, par, cv>> \in
            {x \in UNION {{<<kk, pp, cc>> : pp \in [1..kk -> 0..NumNodes], cc \in {{}, {1}}} :
                            kk \in 0..NumNodes} :
                /\ \A i \in 1..x[1] : x[2][i] < i
                /\ x[3] \subseteq 1..x[1]}}

Init ==
    /\ remote \in InitialStores
    /\ clock = 10 + NumNodes
    /\ files = EmptyFn
    /\ canvases = {}
    /\ dirs = {NoPath}
    /\ disklog = EmptyLog
    /\ pc = "idle"
    /\ last_pull = NoTime
    /\ pages_log = EmptyFn
    /\ delta_pages = EmptyFn
    /\ hygiene_due = FALSE
    /\ page_map = EmptyFn
    /\ todo = {}
    /\ touched = FALSE
    /\ written = {}
    /\ patched = {}
    /\ log_at_start = EmptyLog
    /\ follows_clean = FALSE
    /\ recovering = FALSE
    /\ conflict = FALSE
    /\ last_event = "none"
    /\ pre = NoPre
    /\ runs = 0
    /\ edits = 0
    /\ crashes = 0
    /\ push_todo = {}
    /\ path_to_page = EmptyFn

ResetRun ==
    /\ last_pull' = NoTime
    /\ pages_log' = EmptyFn
    /\ delta_pages' = EmptyFn
    /\ hygiene_due' = FALSE
    /\ page_map' = EmptyFn
    /\ todo' = {}

ResetGhosts ==
    /\ touched' = FALSE
    /\ written' = {}
    /\ patched' = {}
    /\ log_at_start' = EmptyLog
    /\ follows_clean' = FALSE
    /\ recovering' = FALSE
    /\ conflict' = FALSE
    /\ pre' = NoPre

\* ---- the remote store's users
Descendant(rm, a, n) ==
    \* a lies strictly below n
    LET RECURSIVE Up(_, _)
        Up(x, fuel) == IF x = NoParent \/ fuel = 0 THEN FALSE
                       ELSE IF rm[x].parent = n THEN TRUE
                       ELSE Up(rm[x].parent, fuel - 1)
    IN Up(a, NumNodes)

RemoteEdit(rm) ==
    /\ pc = "idle"
    /\ edits < MaxEdits
    /\ edits' = edits + 1
    /\ clock' = clock + 1
    /\ remote' = rm
    /\ last_event' = "edited"
    /\ ResetGhosts
    /\ UNCHANGED <<vaultVars, disklog, pc, runVars, runs, crashes, pushVars>>

RemoteRename ==
    \E n \in DOMAIN remote, t \in Titles :
        /\ ~remote[n].archived
        /\ t # remote[n].title
        /\ RemoteEdit([remote EXCEPT ![n].title = t, ![n].edited = clock + 1])

RemoteReparent ==
    \E n \in DOMAIN remote, p \in DOMAIN remote \cup {NoParent} :
        /\ ~remote[n].archived
        /\ p # n
        /\ p # remote[n].parent
        /\ p # NoParent => ~remote[p].archived /\ ~Descendant(remote, p, n)
        /\ RemoteEdit([remote EXCEPT ![n].parent = p, ![n].edited = clock + 1])

RemoteArchive ==
    \E n \in DOMAIN remote :
        /\ ~remote[n].archived
        /\ RemoteEdit([remote EXCEPT ![n].archived = TRUE, ![n].edited = clock + 1])

\* ---- _pull
\* _depth's loop "while cur has a parent: cur = page_map.get(parent)" ends for
\* page n: following parents from n reaches a root within `fuel` steps.
RECURSIVE ChainEnds(_, _, _)
ChainEnds(n, rm, fuel) ==
    IF rm[n].parent = NoParent \/ rm[n].parent \notin DOMAIN rm THEN TRUE
    ELSE IF fuel = 0 THEN FALSE
    ELSE ChainEnds(rm[n].parent, rm, fuel - 1)

\* A variant of the early return that saves the log with a fresh watermark.
ReturnEarlySaving ==
    /\ ResetRun
    /\ ResetGhosts
    /\ pc' = "idle"
    /\ last_event' = "fastexit"
    /\ disklog' = [disklog EXCEPT !.last_pull = clock']
    /\ UNCHANGED <<remote, vaultVars>>

\* "No changes detected since last pull.": the run returns; nothing was written.
ReturnEarly ==
    /\ ResetRun
    /\ ResetGhosts
    /\ pc' = "idle"
    /\ last_event' = "fastexit"
    /\ UNCHANGED <<remote, vaultVars, disklog>>

\* Steps 1 and 2: load the log, query the delta, decide on the fast exit, expand.
\* The run then sorts the pages by _depth; with a cyclic parent chain among them
\* that loop never ends and the run stays in it (pc = "hung").
PullBegin(listsArchived, max_runs) ==
    LET now == clock + 1
        lp == disklog.last_pull
        delta == IF lp # NoTime THEN DeltaQuery(remote, lp, listsArchived)
                 ELSE ListAll(remote, listsArchived)
        due == HygieneDue(lp, now)
        fast == FastExit(delta, lp, due)
        ids == Expand(delta, {}, remote)
    IN /\ pc = "idle"
       /\ runs < max_runs
       /\ runs' = runs + 1
       /\ clock' = now
       /\ IF fast
          THEN ReturnEarly
          ELSE /\ last_pull' = lp
               /\ pages_log' = disklog.pages
               /\ delta_pages' = [n \in delta |-> Snapshot(remote[n])]
               /\ hygiene_due' = due
               /\ page_map' = [n \in ids |-> Snapshot(remote[n])]
               /\ todo' = ids
               /\ touched' = FALSE
               /\ written' = {}
               /\ patched' = {}
               /\ log_at_start' = disklog
               /\ follows_clean' = (last_event = "completed")
               /\ recovering' = (last_event = "crashed")
               /\ conflict' = (last_event = "crashed" /\ conflict)
               /\ pre' = IF last_event = "crashed" THEN pre
                          ELSE [files |-> files, canvases |-> canvases,
                                pages |-> disklog.pages, remote |-> remote]
               /\ pc' = IF \E n \in ids : ~ChainEnds(n, remote, Len(remote)) THEN "hung"
                        ELSE IF ids = {} THEN "delete" ELSE "write"
               /\ last_event' = "running"
               /\ UNCHANGED <<remote, vaultVars, disklog>>
       /\ UNCHANGED <<edits, crashes, pushVars>>

PullStart == \E listsArchived \in BOOLEAN : PullBegin(listsArchived, MaxRuns)

\* The same, in the histories that follow an interruption through to a later run.
PullRestart == \E listsArchived \in BOOLEAN : PullBegin(listsArchived, MaxRecoveryRuns)

\* A variant of the loop that takes the pages in any order.
NextInAnyOrder(n) == n \in todo

\* Step 4, one page: the next page in depth order.
NextInDepthOrder(n) ==
    \A m \in todo : Depth(page_map[n], page_map, NumNodes)
                       <= Depth(page_map[m], page_map, NumNodes)

\* The effect of write_page on page n, r being its result.
PageWritten(n, r) ==
    /\ files' = r.w.files
    /\ canvases' = r.w.canvases
    /\ dirs' = r.w.dirs
    /\ pages_log' = r.w.plog
    /\ touched' = r.w.touched
    /\ conflict' = r.w.conflict
    /\ remote' = r.remote
    /\ written' = IF r.wrote THEN written \cup {n} ELSE written
    /\ patched' = IF r.patched THEN patched \cup {n} ELSE patched
    /\ todo' = todo \ {n}
    /\ pc' = IF todo \ {n} = {} THEN "delete" ELSE "write"
    /\ UNCHANGED <<clock, disklog, last_pull, delta_pages, hygiene_due, page_map,
                   log_at_start, follows_clean, recovering, last_event, pre,
                   runs, edits, crashes, pushVars>>

WritePage ==
    /\ pc = "write"
    /\ \E n \in todo :
         /\ NextInDepthOrder(n)
         /\ PageWritten(n, WritePageResult(World, remote, page_map, n, clock))

\* Step 5
DeletePagesBody ==
    /\ pc = "delete"
    /\ LET alive == AliveIds(remote, TRUE)
           dead == IF DOMAIN delta_pages # {} \/ hygiene_due
                   THEN DOMAIN pages_log \ alive ELSE {}
           w == DeleteDead(World, dead)
       IN /\ files' = w.files
          /\ dirs' = w.dirs
          /\ pages_log' = w.plog
          /\ touched' = w.touched
    /\ pc' = "siblings"
    /\ UNCHANGED <<remote, clock, canvases, last_pull, delta_pages, hygiene_due,
                   page_map, todo, written, patched, log_at_start, follows_clean,
                   recovering, conflict, last_event, pre, runs, edits, crashes, pushVars>>

\* A variant that saves the log once the deletions are done.
DeletePagesSaving ==
    DeletePagesBody /\ disklog' = [last_pull |-> last_pull, pages |-> pages_log']

DeletePages == DeletePagesBody /\ UNCHANGED disklog

\* Step 6
RebuildSiblings ==
    /\ pc = "siblings"
    /\ \E srt \in SortedRoots(pages_log, page_map, remote) :
         LET w == WriteSiblingBlock(World, srt, 1, page_map, remote)
         IN /\ files' = w.files
            /\ touched' = w.touched
    /\ pc' = "commit"
    /\ UNCHANGED <<remote, clock, canvases, dirs, disklog, runVars, written, patched,
                   log_at_start, follows_clean, recovering, conflict, last_event, pre,
                   runs, edits, crashes, pushVars>>

\* Step 7
CommitLog ==
    /\ pc = "commit"
    /\ disklog' = [last_pull |-> NewLastPull(delta_pages, last_pull, clock),
                   pages |-> pages_log]
    /\ pc' = "idle"
    /\ last_event' = "completed"
    /\ ResetRun
    /\ UNCHANGED <<remote, clock, vaultVars, ghostVars, runs, edits, crashes, pushVars>>

\* The process is killed during a run: memory is lost, the disk stays.
Crash ==
    /\ pc # "idle"
    /\ crashes < MaxCrashes
    /\ crashes' = crashes + 1
    /\ pc' = "idle"
    /\ last_event' = "crashed"
    /\ ResetRun
    /\ touched' = FALSE
    /\ written' = {}
    /\ patched' = {}
    /\ log_at_start' = EmptyLog
    /\ follows_clean' = FALSE
    /\ recovering' = FALSE
    /\ UNCHANGED <<remote, clock, vaultVars, disklog, conflict, pre, runs, edits, pushVars>>

\* Completed runs with remote edits between them.
Next ==
    \/ RemoteRename
    \/ RemoteReparent
    \/ RemoteArchive
    \/ PullStart
    \/ WritePage
    \/ DeletePages
    \/ RebuildSiblings
    \/ CommitLog

Spec == Init /\ [][Next]_vars

\* No two pages under the same parent share a title.
DistinctSiblings(rm) ==
    \A a, b \in DOMAIN rm :
        (a # b /\ rm[a].parent = rm[b].parent) => rm[a].title # rm[b].title

\* The same with users who never give two pages under one parent the same title.
NextDistinct ==
    \/ RemoteRename /\ DistinctSiblings(remote')
    \/ RemoteReparent /\ DistinctSiblings(remote')
    \/ RemoteArchive
    \/ PullStart
    \/ WritePage
    \/ DeletePages
    \/ RebuildSiblings
    \/ CommitLog

SpecDistinct == Init /\ [][NextDistinct]_vars

\* Runs that may be interrupted, with renames between them.
NextCrash ==
    \/ RemoteRename
    \/ PullRestart
    \/ WritePage
    \/ DeletePages
    \/ RebuildSiblings
    \/ CommitLog
    \/ Crash

InitCrash == Init /\ \A n \in DOMAIN remote : ~remote[n].canvas

SpecCrash == InitCrash /\ [][NextCrash]_vars

\* ---- faults
\* A user makes a page a child of one of its own descendants.
RemoteReparentCycle ==
    \E n \in DOMAIN remote, p \in DOMAIN remote :
        /\ ~remote[n].archived
        /\ ~remote[p].archived
        /\ p # remote[n].parent
        /\ p # n
        /\ Descendant(remote, p, n)
        /\ RemoteEdit([remote EXCEPT ![n].parent = p, ![n].edited = clock + 1])

\* write_page(pg) in which the fetch of the page after the patch (nm.get_page)
\* fails: the move, the document and the patch are done, the log entry is not.
\* Whether the call raises or returns nothing, the error leaves write_page, the
\* loop and _pull: the run ends without saving the log.
PageFailed(n, r) ==
    /\ crashes < MaxCrashes
    /\ r.wrote
    /\ files' = r.at_refetch.files
    /\ canvases' = r.at_refetch.canvases
    /\ dirs' = r.at_refetch.dirs
    /\ touched' = r.at_refetch.touched
    /\ conflict' = r.at_refetch.conflict
    /\ remote' = r.remote
    /\ patched' = IF r.patched THEN patched \cup {n} ELSE patched
    /\ crashes' = crashes + 1
    /\ pc' = "idle"
    /\ last_event' = "failed"
    /\ ResetRun
    /\ UNCHANGED <<clock, disklog, written, log_at_start, follows_clean, recovering,
                   pre, runs, edits, pushVars>>

\* Step 4, one page, when remote calls can fail.
WritePageOrFail ==
    /\ pc = "write"
    /\ \E n \in todo :
         /\ NextInDepthOrder(n)
         /\ LET r == WritePageResult(World, remote, page_map, n, clock)
            IN \/ PageWritten(n, r)
               \/ PageFailed(n, r)

\* sync_log_path.write_text(...): the file is opened for writing, which empties
\* it, and is filled afterwards; in between it holds a strict prefix of the text.
TornLog == [last_pull |-> NoTime, pages |-> EmptyFn, torn |-> TRUE]

CommitLogOpen ==
    /\ pc = "commit"
    /\ disklog' = TornLog
    /\ pc' = "committing"
    /\ UNCHANGED <<remote, clock, vaultVars, runVars, ghostVars, last_event,
                   runs, edits, crashes, pushVars>>

CommitLogWrite ==
    /\ pc = "committing"
    /\ disklog' = [last_pull |-> NewLastPull(delta_pages, last_pull, clock),
                   pages |-> pages_log]
    /\ pc' = "idle"
    /\ last_event' = "completed"
    /\ ResetRun
    /\ UNCHANGED <<remote, clock, vaultVars, ghostVars, runs, edits, crashes, pushVars>>

\* ---- pages that appear in the store
\* A user adds a page: the next id, any title, any live parent or none.
NewPage(t, p, now) ==
    [title |-> t, parent |-> p, edited |-> now, archived |-> FALSE,
     canvas |-> FALSE, opath |-> NoPath]

RemoteCreate ==
    \E t \in Titles, p \in DOMAIN remote \cup {NoParent} :
        /\ Len(remote) < NumNodes
        /\ p # NoParent => ~remote[p].archived
        /\ RemoteEdit(Append(remote, NewPage(t, p, clock + 1)))

\* The same while a run is under way: the run has already queried the store.
RemoteCreateDuringRun ==
    \E t \in Titles, p \in DOMAIN remote \cup {NoParent} :
        /\ pc # "idle"
        /\ edits < MaxEdits
        /\ Len(remote) < NumNodes
        /\ p # NoParent => ~remote[p].archived
        /\ edits' = edits + 1
        /\ clock' = clock + 1
        /\ remote' = Append(remote, NewPage(t, p, clock + 1))
        /\ UNCHANGED <<vaultVars, disklog, pc, runVars, ghostVars, last_event,
                       runs, crashes, pushVars>>

\* ---- time
\* Nothing happens until the watermark is exactly as old as the staleness
\* threshold at the next pull, or one second older.
DayPasses ==
    /\ pc = "idle"
    /\ disklog.last_pull # NoTime
    /\ clock < MaxDays * HygieneHours * 60 * 60
    /\ \E d \in {0, 1} :
          clock' = disklog.last_pull + HygieneHours * 60 * 60 + d - 1
    /\ last_event' = "waited"
    /\ ResetGhosts
    /\ UNCHANGED <<remote, vaultVars, disklog, pc, runVars, runs, edits, crashes, pushVars>>

\* Completed runs with renames, trashed pages and long pauses between them.
NextDay ==
    \/ RemoteRename
    \/ RemoteArchive
    \/ PullStart
    \/ WritePage
    \/ DeletePages
    \/ RebuildSiblings
    \/ CommitLog
    \/ DayPasses

SpecDay == InitCrash /\ [][NextDay]_vars

\* Runs over a store that gains pages, also while a run is under way, and that
\* may hold cyclic parent references; a remote call may fail; the log file is
\* followed through its write.
NextFault ==
    \/ RemoteCreate
    \/ RemoteCreateDuringRun
    \/ RemoteReparentCycle
    \/ PullStart
    \/ WritePageOrFail
    \/ DeletePages
    \/ RebuildSiblings
    \/ CommitLogOpen
    \/ CommitLogWrite

SpecFault == InitCrash /\ [][NextFault]_vars

\* ---- parents the store cannot retrieve
\* The id of a page that nm.get_page cannot retrieve.
Unreachable == NumNodes + 1

\* A page's parent becomes unretrievable: the relation still names it.
RemoteParentLost ==
    \E n \in DOMAIN remote :
        /\ ~remote[n].archived
        /\ remote[n].parent # Unreachable
        /\ RemoteEdit([remote EXCEPT ![n].parent = Unreachable, ![n].edited = clock + 1])

\* write_page's walk from pg upwards meets only pages that page_map holds or
\* nm.get_page returns.
RECURSIVE WalkRetrieves(_, _, _, _)
WalkRetrieves(pg, pm, rm, fuel) ==
    IF pg.parent = NoParent \/ fuel = 0 THEN TRUE
    ELSE IF pg.parent \notin DOMAIN pm /\ pg.parent \notin DOMAIN rm THEN FALSE
    ELSE WalkRetrieves(Lookup(pm, rm, pg.parent), pm, rm, fuel - 1)

\* write_page(pg) whose walk meets an unretrievable parent: the cursor is
\* empty, title(cursor) raises in its own except clause, and the error leaves
\* write_page, the loop and _pull.
PageLost(n) ==
    /\ pc' = "idle"
    /\ last_event' = "lost"
    /\ ResetRun
    /\ UNCHANGED <<remote, clock, vaultVars, disklog, ghostVars, runs, edits, crashes,
                   pushVars>>

\* Step 4, one page, when parents can be unretrievable.
WritePageOrLost ==
    /\ pc = "write"
    /\ \E n \in todo :
         /\ NextInDepthOrder(n)
         /\ IF WalkRetrieves(page_map[n], page_map, remote, NumNodes)
            THEN PageWritten(n, WritePageResult(World, remote, page_map, n, clock))
            ELSE PageLost(n)

\* Completed runs over a store in which parents become unretrievable.
NextLost ==
    \/ RemoteParentLost
    \/ RemoteRename
    \/ PullStart
    \/ WritePageOrLost
    \/ DeletePages
    \/ RebuildSiblings
    \/ CommitLog

SpecLost == InitCrash /\ [][NextLost]_vars

\* ---- _push
\* MdDoc.notion_id: the id found in the front matter's notion_url, if any.
NoId == NoParent
NotionId(doc) == IF "notion_url" \in DOMAIN doc THEN doc.notion_url ELSE NoId

\* MdDoc.title: the first line of the body without its heading mark. A pulled
\* document's body starts with a rule, which is then its title.
RuleTitle == 0
DocTitle(doc) == IF "title" \in DOMAIN doc THEN doc.title ELSE RuleTitle

\* A document a person wrote: no front matter, a heading with the file's name.
UserDoc(p) ==
    [owner |-> NoId, root |-> FALSE, parent |-> NoPath, canvas |-> FALSE,
     sib |-> NoPath, title |-> Last(p), notion_url |-> NoId]

\* update_doc: the front matter read at scan time, with notion_id set.
UpdateDoc(doc, notion_id) == [doc EXCEPT !.owner = notion_id]

\* _find_parent_page_id, from directory parent_dir upwards.
RECURSIVE FindParentPageId(_, _)
FindParentPageId(parent_dir, cache) ==
    IF parent_dir = << >> THEN NoId
    ELSE LET hub_md == parent_dir \o <<Last(parent_dir)>>
         IN IF hub_md \in DOMAIN cache THEN cache[hub_md]
            ELSE FindParentPageId(Front(parent_dir), cache)

\* Every top-level folder without a hub document gets one.
WithTopHubs(fs, ds) ==
    LET hubs == {<<d[1], d[1]>> : d \in {x \in ds : Len(x) = 1}}
    IN [p \in DOMAIN fs \cup hubs |-> IF p \in DOMAIN fs THEN fs[p] ELSE UserDoc(p)]

\* The start of a push run: hubs, scan, documents at the vault root dropped.
PushBegin ==
    /\ pc = "idle"
    /\ runs < MaxRuns
    /\ runs' = runs + 1
    /\ clock' = clock + 1
    /\ LET fs == WithTopHubs(files, dirs)
           docs == {p \in DOMAIN fs : Len(p) > 1}
       IN /\ files' = fs
          /\ push_todo' = docs
          /\ path_to_page' = EmptyFn
          /\ pc' = IF docs = {} THEN "idle" ELSE "push"
          /\ last_event' = IF docs = {} THEN "pushed" ELSE "pushing"
    /\ UNCHANGED <<remote, canvases, dirs, disklog, runVars, ghostVars, edits, crashes>>

\* One document of the loop: the next one in depth order, documents of equal
\* depth in the order the scan met them.
PushDoc ==
    /\ pc = "push"
    /\ \E p \in push_todo :
         /\ \A q \in push_todo : Len(p) <= Len(q)
         /\ LET doc == files[p]
                parent_page_id == FindParentPageId(Front(p), path_to_page)
                created == Len(remote) + 1
            IN IF NotionId(doc) # NoId
               THEN /\ path_to_page' = (p :> NotionId(doc)) @@ path_to_page
                    /\ UNCHANGED <<remote, files>>
               ELSE /\ Len(remote) < NumNodes
                    /\ remote' = UpdatePage(
                                    Append(remote, NewPage(DocTitle(doc), parent_page_id, clock)),
                                    created, p, clock)
                    /\ files' = [files EXCEPT ![p] = UpdateDoc(doc, created)]
                    /\ path_to_page' = (p :> created) @@ path_to_page
         /\ push_todo' = push_todo \ {p}
         /\ pc' = IF push_todo = {p} THEN "idle" ELSE "push"
         /\ last_event' = IF push_todo = {p} THEN "pushed" ELSE "pushing"
    /\ UNCHANGED <<clock, canvases, dirs, disklog, runVars, ghostVars, runs, edits, crashes>>

\* The vaults a first push can meet: documents a person wrote, some in folders
\* with a hub document, some not, one at the vault's root; the hub of folder 1
\* may carry the URL of a page the store already holds.
UserPaths == {<<1, 1>>, <<1, 3>>, <<1, 2, 2>>, <<2, 3>>, <<3>>}

InitPush ==
    /\ \E S \in SUBSET UserPaths, linked \in BOOLEAN :
         /\ S # {}
         /\ linked => <<1, 1>> \in S
         /\ remote = IF linked THEN <<NewPage(1, NoParent, 10)>> ELSE << >>
         /\ files = [p \in S |-> IF linked /\ p = <<1, 1>>
                                 THEN [UserDoc(p) EXCEPT !.notion_url = 1]
                                 ELSE UserDoc(p)]
         /\ dirs = {NoPath} \cup UNION {Prefixes(Front(p)) : p \in S}
    /\ clock = 10 + NumNodes
    /\ canvases = {}
    /\ disklog = EmptyLog
    /\ pc = "idle"
    /\ last_pull = NoTime
    /\ pages_log = EmptyFn
    /\ delta_pages = EmptyFn
    /\ hygiene_due = FALSE
    /\ page_map = EmptyFn
    /\ todo = {}
    /\ touched = FALSE
    /\ written = {}
    /\ patched = {}
    /\ log_at_start = EmptyLog
    /\ follows_clean = FALSE
    /\ recovering = FALSE
    /\ conflict = FALSE
    /\ last_event = "none"
    /\ pre = NoPre
    /\ runs = 0
    /\ edits = 0
    /\ crashes = 0
    /\ push_todo = {}
    /\ path_to_page = EmptyFn

\* Pull runs and push runs, one after the other, in any order.
NextPush ==
    \/ PushBegin
    \/ PushDoc
    \/ PullStart
    \/ WritePage
    \/ DeletePages
    \/ RebuildSiblings
    \/ CommitLog

SpecPush == InitPush /\ [][NextPush]_vars

\* A user renames a page while a run is under way.
RemoteRenameDuringRun ==
    \E n \in DOMAIN remote, t \in Titles :
        /\ pc # "idle"
        /\ edits < MaxEdits
        /\ ~remote[n].archived
        /\ t # remote[n].title
        /\ edits' = edits + 1
        /\ clock' = clock + 1
        /\ remote' = [remote EXCEPT ![n].title = t, ![n].edited = clock + 1]
        /\ UNCHANGED <<vaultVars, disklog, pc, runVars, ghostVars, last_event,
                       runs, crashes, pushVars>>

\* Pull runs with users editing and creating pages at any point, between runs
\* and during them.
NextLive ==
    \/ RemoteCreate
    \/ RemoteRename
    \/ RemoteCreateDuringRun
    \/ RemoteRenameDuringRun
    \/ PullStart
    \/ WritePage
    \/ DeletePages
    \/ RebuildSiblings
    \/ CommitLog

SpecLive == InitCrash /\ [][NextLive]_vars

\* A user edits the body of a page: its last-edited time moves, nothing else.
RemoteTouch ==
    \E n \in DOMAIN remote :
        /\ ~remote[n].archived
        /\ RemoteEdit([remote EXCEPT ![n].edited = clock + 1])

\* Pull runs with users renaming pages and editing page bodies between them,
\* sibling titles distinct at all times.
NextTouch ==
    \/ RemoteRename /\ DistinctSiblings(remote')
    \/ RemoteTouch
    \/ PullStart
    \/ WritePage
    \/ DeletePages
    \/ RebuildSiblings
    \/ CommitLog

SpecTouch == InitCrash /\ [][NextTouch]_vars

\* SyncService.run with direction bidirectional: _pull, then _push on the same
\* vault.
PullJustEnded == pc = "idle" /\ last_event \in {"completed", "fastexit"}

RunPull == ~PullJustEnded /\ PullStart

RunPush == PullJustEnded /\ PushBegin

NextBidi ==
    \/ RunPull
    \/ WritePage
    \/ DeletePages
    \/ RebuildSiblings
    \/ CommitLog
    \/ RunPush
    \/ PushDoc

SpecBidi == InitPush /\ [][NextBidi]_vars

\* ---- the text of the navigation rebuild
\* A document body as its lines: ordinary text, an empty line, the heading
\* "*Siblings:*", or a bullet "- [[x/x]]" linking to folder x.
MaxLines == 3
TextLine == [kind |-> "text", to |-> 0]
BlankLine == [kind |-> "blank", to |-> 0]
HeadLine == [kind |-> "head", to |-> 0]
Bullet(x) == [kind |-> "bullet", to |-> x]

\* str.strip() / str.rstrip() on whole lines
RECURSIVE RStrip(_)
RStrip(c) ==
    IF c # << >> /\ c[Len(c)] = BlankLine THEN RStrip(SubSeq(c, 1, Len(c) - 1)) ELSE c

RECURSIVE LStrip(_)
LStrip(c) == IF c # << >> /\ c[1] = BlankLine THEN LStrip(Tail(c)) ELSE c

Strip(c) == LStrip(RStrip(c))

\* re.sub(r"^[ \t]*-\s+\[\[.*?\/.*?\]\]\s*\n?", "", content): every bullet that
\* links to a path goes, with the empty lines after it.
RECURSIVE StripBullets(_)
StripBullets(c) ==
    IF c = << >> THEN << >>
    ELSE IF c[1].kind = "bullet" THEN StripBullets(LStrip(Tail(c)))
    ELSE <<c[1]>> \o StripBullets(Tail(c))

\* re.sub(r"\*Siblings:\*[\s\S]*?(?:\n{2,}|$)", "", content): the heading goes
\* with the empty lines after it; followed by a line of text (or by nothing) it
\* leaves its own line empty.
RECURSIVE StripSiblings(_)
StripSiblings(c) ==
    IF c = << >> THEN << >>
    ELSE IF c[1] = HeadLine
         THEN IF Len(c) > 1 /\ c[2] = BlankLine
              THEN StripSiblings(LStrip(Tail(c)))
              ELSE <<BlankLine>> \o StripSiblings(Tail(c))
    ELSE <<c[1]>> \o StripSiblings(Tail(c))

\* re.sub(r"\n{3,}", "\n\n", content)
RECURSIVE CollapseBlank(_)
CollapseBlank(c) ==
    IF Len(c) < 2 THEN c
    ELSE IF c[1] = BlankLine /\ c[2] = BlankLine THEN CollapseBlank(Tail(c))
    ELSE <<c[1]>> \o CollapseBlank(Tail(c))

\* The body _write_sibling_block leaves in a document whose body was c:
\* frontmatter.load strips the body, frontmatter.dumps strips the text.
SiblingText(c, has_next, sib_title) ==
    LET cleaned == CollapseBlank(StripSiblings(StripBullets(Strip(c))))
    IN Strip(IF has_next
             THEN RStrip(cleaned) \o <<BlankLine, HeadLine, Bullet(sib_title)>>
             ELSE cleaned)

\* The hub document of root 1 with any body of up to MaxLines lines; root 2,
\* if there is one, is its next sibling.
Lines == {TextLine, BlankLine, HeadLine, Bullet(2), Bullet(3)}
Bodies == UNION {[1..k -> Lines] : k \in 0..MaxLines}

InitNav ==
    /\ \E c \in Bodies, k \in 1..2 :
         /\ remote = [n \in 1..k |-> [NewPage(n, NoParent, 10 + n) EXCEPT !.opath = <<n, n>>]]
         /\ files = (<<1, 1>> :> [owner |-> 1, root |-> TRUE, parent |-> NoPath,
                                  canvas |-> FALSE, sib |-> NoPath, body |-> c])
         /\ pre = [files |-> files, canvases |-> {}, pages |-> EmptyFn, remote |-> remote]
    /\ dirs = {NoPath, <<1>>}
    /\ clock = 10 + NumNodes
    /\ canvases = {}
    /\ disklog = EmptyLog
    /\ pc = "idle"
    /\ last_pull = NoTime
    /\ pages_log = EmptyFn
    /\ delta_pages = EmptyFn
    /\ hygiene_due = FALSE
    /\ page_map = EmptyFn
    /\ todo = {}
    /\ touched = FALSE
    /\ written = {}
    /\ patched = {}
    /\ log_at_start = EmptyLog
    /\ follows_clean = FALSE
    /\ recovering = FALSE
    /\ conflict = FALSE
    /\ last_event = "none"
    /\ runs = 0
    /\ edits = 0
    /\ crashes = 0
    /\ push_todo = {}
    /\ path_to_page = EmptyFn

\* One call of _write_sibling_block on the hub document of root 1.
RebuildText ==
    /\ runs < MaxRuns
    /\ runs' = runs + 1
    /\ LET md == <<1, 1>>
           has_next == Len(remote) > 1
           sib_title == IF has_next THEN remote[2].title ELSE 0
       IN files' = [files EXCEPT
                       ![md].body = SiblingText(@, has_next, sib_title),
                       ![md].sib = IF has_next THEN <<sib_title, sib_title>> ELSE NoPath]
    /\ last_event' = "rebuilt"
    /\ UNCHANGED <<remote, clock, canvases, dirs, disklog, pc, runVars, ghostVars, edits,
                   crashes, pushVars>>

NextNav == RebuildText

SpecNav == InitNav /\ [][NextNav]_vars

\* =================================================================== claims
\* The path write_page computes for page n from the store as it stands.
CanonPath(n) == MdPath(Snapshot(remote[n]), EmptyFn, remote)

\* A pull run has just completed (its log is committed).
Completed == pc = "idle" /\ last_event = "completed"

\* When the run started, every logged path named the document of its page.
GoodBefore ==
    \A n \in DOMAIN pre.pages :
        /\ pre.pages[n].path \in DOMAIN pre.files
        /\ pre.files[pre.pages[n].path].owner = n

\* Every committed entry names the document of its page / is canonical.
LogOnDisk ==
    \A n \in DOMAIN disklog.pages :
        /\ disklog.pages[n].path \in DOMAIN files
        /\ files[disklog.pages[n].path].owner = n

LogCanonical ==
    \A n \in DOMAIN disklog.pages :
        /\ disklog.pages[n].path = CanonPath(n)
        /\ disklog.pages[n].parent_id = remote[n].parent

\* C1 (pull idempotence): a run that starts right after a completed run, with
\* no remote change in between, writes nothing to the local tree and patches no
\* remote page.
C1_SecondPullWritesNothing ==
    (Completed /\ follows_clean) => (~touched /\ patched = {})

\* C2 (log intact until commit): while a run is under way the persisted log is
\* the log the run loaded, and the only step that changes the persisted log is
\* the commit that ends the run.
C2_LogIntactUntilCommit ==
    [][/\ pc # "idle" => disklog = log_at_start
       /\ disklog' # disklog => (pc = "commit" /\ pc' = "idle")]_vars

\* A run that stands before its commit with a changed vault and a changed
\* in-memory log, over a log committed by an earlier run.
C2_Witness ==
    /\ pc = "commit"
    /\ touched
    /\ pages_log # disklog.pages
    /\ disklog.last_pull # NoTime

\* C3 (crash recovery converges): a run that retries an interrupted run, no
\* remote change in between, commits a log in which every entry, also of pages
\* outside the delta, names the document that is on disk for that page.  Stated
\* for runs that started from a consistent vault, with distinct sibling titles
\* and no occupied move destination.
C3_RecoveryConverges ==
    (Completed /\ recovering /\ GoodBefore /\ DistinctSiblings(remote) /\ ~conflict)
        => LogOnDisk

\* C4 (logged path invariant): after a completed run every committed entry
\* records the canonical path and the current parent of its page.  Stated for
\* runs that started from a consistent vault and end with distinct sibling titles.
C4_LoggedPathCanonical ==
    (Completed /\ GoodBefore /\ DistinctSiblings(remote)) => LogCanonical

\* Page n is not in the trash.
Live(n) == ~remote[n].archived

\* No two live pages under the same parent share a title.
LiveDistinct ==
    \A a, b \in DOMAIN remote :
        (a # b /\ Live(a) /\ Live(b) /\ remote[a].parent = remote[b].parent)
            => remote[a].title # remote[b].title

\* The run fetched no page that is in the trash.
FetchedLive == \A n \in DOMAIN page_map : Live(n)

\* C5 (move correctness, relocation): after a completed run, every live page
\* whose canonical path differs from the path logged before the run has its
\* document at the new canonical path and no longer at the old one, and its log
\* entry records the new path; this covers a renamed or re-parented page and
\* every descendant below it.  Stated for runs that started from a consistent
\* vault and end with distinct sibling titles.
C5_Relocated ==
    (Completed /\ GoodBefore /\ DistinctSiblings(remote)) =>
        \A n \in DOMAIN pre.pages :
            (Live(n) /\ pre.pages[n].path # CanonPath(n)) =>
                /\ CanonPath(n) \in DOMAIN files
                /\ files[CanonPath(n)].owner = n
                /\ \/ pre.pages[n].path \notin DOMAIN files
                   \/ files[pre.pages[n].path].owner # n
                /\ n \in DOMAIN disklog.pages
                /\ disklog.pages[n].path = CanonPath(n)

\* C6 (move correctness, references): after a completed run that relocated the
\* document of a page, no document of the vault still holds a link to the old
\* path of that page (a path at which no document is left).  Stated for runs
\* that started from a consistent vault, with distinct sibling titles and no
\* occupied move destination.
C6_NoLinkToOldPath ==
    (Completed /\ GoodBefore /\ DistinctSiblings(remote) /\ ~conflict) =>
        \A n \in DOMAIN pre.pages \cap DOMAIN disklog.pages :
            LET old == pre.pages[n].path
            IN (disklog.pages[n].path # old /\ old \notin DOMAIN files) =>
                 \A p \in DOMAIN files : files[p].parent # old /\ files[p].sib # old

\* C7 (deletion correctness): the deletion step never removes the document of a
\* page that is still live.  Stated for runs that started from a consistent
\* vault, with distinct titles among live siblings, that fetched no trashed page.
C7_LiveDocumentsKept ==
    [][(pc = "delete" /\ pc' = "siblings" /\ GoodBefore /\ LiveDistinct /\ FetchedLive)
          => \A p \in DOMAIN files : Live(files[p].owner) => p \in DOMAIN files']_vars

\* C8 (side-artifacts survive deletion): when a run has dropped a page that is
\* no longer live, the canvas file that page had before the run is still there
\* when the run reaches its commit, and so is the directory holding it.  Stated
\* for runs that started from a consistent vault, with distinct titles among
\* live siblings, that fetched no trashed page.
C8_CanvasSurvivesDeletion ==
    (pc = "commit" /\ GoodBefore /\ LiveDistinct /\ FetchedLive) =>
        \A n \in DOMAIN pre.pages \ DOMAIN pages_log :
            pre.pages[n].path \in pre.canvases =>
                /\ pre.pages[n].path \in canvases
                /\ Front(pre.pages[n].path) \in dirs

\* The run started from an empty log.
Bootstrap == log_at_start = EmptyLog

\* C9 (bootstrap): a completed run from an empty log over n >= 1 live pages with
\* distinct sibling titles leaves exactly n documents, one per page, a log with
\* exactly one entry per page, and a watermark one second before the latest
\* edit time among the pages fetched.
C9_Bootstrap ==
    (/\ Completed
     /\ Bootstrap
     /\ DOMAIN remote # {}
     /\ \A n \in DOMAIN remote : Live(n)
     /\ DistinctSiblings(remote)) =>
        /\ Cardinality(DOMAIN files) = Cardinality(DOMAIN remote)
        /\ \A n \in DOMAIN remote : \E p \in DOMAIN files : files[p].owner = n
        /\ DOMAIN disklog.pages = DOMAIN remote
        /\ disklog.last_pull = SetMax({pre.remote[n].edited : n \in DOMAIN remote}) - 1

\* A completed bootstrap over a root with two children.
C9_Witness ==
    /\ Completed
    /\ Bootstrap
    /\ Cardinality(DOMAIN remote) = 3
    /\ \A n \in DOMAIN remote : Live(n)
    /\ DistinctSiblings(remote)
    /\ Cardinality({n \in DOMAIN remote : remote[n].parent # NoParent}) = 2
    /\ Cardinality(DOMAIN files) = 3

\* The logged roots.
RootsOf(plog) == {n \in DOMAIN plog : plog[n].parent_id = NoParent}

\* C10 (sibling chain): after a completed run every logged root has its hub
\* document, and that document links forward to the next root in title order,
\* the last root's document holding no forward link.  Stated for runs that
\* started from a consistent vault and end with distinct sibling titles.
C10_SiblingChain ==
    (Completed /\ GoodBefore /\ DistinctSiblings(remote)) =>
        \A r \in RootsOf(disklog.pages) :
            LET p == disklog.pages[r].path
                later == {remote[m].title :
                            m \in {x \in RootsOf(disklog.pages) :
                                     remote[x].title > remote[r].title}}
                nxt == CHOOSE t \in later : \A u \in later : t <= u
            IN /\ p \in DOMAIN files
               /\ files[p].sib = IF later = {} THEN NoPath ELSE <<nxt, nxt>>

\* The titles of page n's ancestors, root first, then n's own title, read from
\* the store alone.
RECURSIVE TitleChain(_, _)
TitleChain(n, fuel) ==
    IF remote[n].parent = NoParent \/ fuel = 0 THEN <<remote[n].title>>
    ELSE TitleChain(remote[n].parent, fuel - 1) \o <<remote[n].title>>

\* C11 (deterministic path construction): whenever write_page handles a page,
\* the path it logs is the page's ancestor titles from the root down, the
\* page's own title as its folder, and the page's own title as the document
\* name, whichever pages the delta held and whichever page of equal depth was
\* handled first.
C11_PathFromTitles ==
    [][pc = "write" =>
          \A n \in todo \ todo' :
              /\ n \in DOMAIN pages_log'
              /\ pages_log'[n].path = TitleChain(n, NumNodes) \o <<remote[n].title>>]_vars

\* A page three levels deep has been handled in a run whose delta held neither
\* its parent nor its grandparent.
C11_Witness ==
    /\ pc \in {"write", "delete"}
    /\ \E n \in DOMAIN page_map \ todo :
          /\ Len(pages_log[n].path) = 4
          /\ n \in DOMAIN delta_pages
          /\ remote[n].parent \notin DOMAIN delta_pages
          /\ remote[remote[n].parent].parent \notin DOMAIN delta_pages

\* The watermark wm is older than the staleness threshold at time now.
Stale(wm, now) == wm # NoTime /\ now - wm > HygieneHours * 60 * 60

\* C12 (single fast-path exit): a run returns early only when a watermark
\* exists, no live page was edited after it and the watermark is not stale;
\* a run that goes on has no watermark, or a non-empty delta, or a stale
\* watermark, and its deletion pass is not skipped.
C12_SingleFastExit ==
    /\ last_event = "fastexit" =>
          /\ pc = "idle"
          /\ disklog.last_pull # NoTime
          /\ ~Stale(disklog.last_pull, clock)
          /\ \A n \in DOMAIN remote : Live(n) => remote[n].edited <= disklog.last_pull
    /\ last_event = "running" =>
          /\ pc \in {"write", "delete", "siblings", "commit"}
          /\ \/ log_at_start.last_pull = NoTime
             \/ DOMAIN delta_pages # {}
             \/ Stale(log_at_start.last_pull, clock)
          /\ DOMAIN delta_pages # {} \/ hygiene_due

\* A run returned early over a vault that holds documents, its watermark being
\* exactly as old as the threshold.
C12_Witness ==
    /\ last_event = "fastexit"
    /\ DOMAIN files # {}
    /\ clock - disklog.last_pull = HygieneHours * 60 * 60

\* C20 (hygiene re-scan): a run that starts with a stale watermark does not
\* return early, and its deletion pass drops every logged page that is not
\* live, with its document, whether or not the delta held a page.
C20_HygieneRescan ==
    [][/\ (pc = "idle" /\ runs' = runs + 1 /\ Stale(disklog.last_pull, clock'))
             => pc' \in {"write", "delete"}
       /\ (pc = "delete" /\ Stale(log_at_start.last_pull, clock))
             => \A n \in DOMAIN pages_log :
                   ~Live(n) => /\ n \notin DOMAIN pages_log'
                               /\ pages_log[n].path \notin DOMAIN files']_vars

\* A run with a stale watermark and an empty delta has dropped a logged page.
C20_Witness ==
    /\ pc = "siblings"
    /\ Stale(log_at_start.last_pull, clock)
    /\ DOMAIN delta_pages = {}
    /\ DOMAIN pages_log # DOMAIN log_at_start.pages
    /\ DOMAIN files # DOMAIN pre.files

\* C13 (delta covers unlogged nodes): a run that finds a watermark handles
\* every page that was live when the run queried the store and was edited after
\* the watermark or had no log entry; a run that returns early leaves no live
\* page without a log entry.
C13_UnloggedCovered ==
    /\ (last_event = "running" /\ log_at_start.last_pull # NoTime) =>
          \A n \in DOMAIN pre.remote :
              (/\ ~pre.remote[n].archived
               /\ \/ pre.remote[n].edited > log_at_start.last_pull
                  \/ n \notin DOMAIN log_at_start.pages)
                 => n \in DOMAIN page_map
    /\ last_event = "fastexit" =>
          \A n \in DOMAIN remote : Live(n) => n \in DOMAIN disklog.pages

\* C16 (transient remote errors are isolated per node): when a remote call has
\* failed for one page of a run, the persisted log nevertheless holds, for every
\* page the run had written before, an entry with that page's current edit time.
C16_FailureIsolated ==
    (pc = "idle" /\ last_event = "failed") =>
        \A n \in written :
            /\ n \in DOMAIN disklog.pages
            /\ disklog.pages[n].last_edited = remote[n].edited

\* C17 (bounded ancestor walks): no run is ever inside an ancestor walk that
\* does not end.
C17_WalksEnd == pc # "hung"

\* C19 (atomic log commit): at every moment of a run that loaded a log, the
\* commit included, the persisted log is the complete log the run loaded or the
\* complete log the run commits.
C19_AtomicCommit ==
    (pc # "idle" /\ log_at_start.last_pull # NoTime) =>
        \/ disklog = log_at_start
        \/ disklog = [last_pull |-> NewLastPull(delta_pages, last_pull, clock),
                      pages |-> pages_log]

\* The nearest folder from d upwards that holds a hub document other than p.
RECURSIVE NearestHub(_, _)
NearestHub(d, p) ==
    IF d = << >> THEN NoPath
    ELSE LET hub == d \o <<Last(d)>>
         IN IF hub \in DOMAIN files /\ hub # p THEN hub
            ELSE NearestHub(Front(d), p)

\* A document a person wrote that a push run has stamped with a remote id.
PushStamped(p) ==
    /\ p \in DOMAIN files
    /\ "title" \in DOMAIN files[p]
    /\ files[p].owner # NoId

\* The records a step adds to the store.
Created == (DOMAIN remote') \ (DOMAIN remote)

\* C14 (push idempotence): a push run creates no remote node for a document
\* that an earlier push run has stamped, so that a document gives rise to at
\* most one remote node.
C14_PushIdempotent ==
    [][pc = "push" => \A id \in Created : ~PushStamped(remote'[id].opath)]_vars

\* C15 (push parent linking): a node that push creates for a document below a
\* folder with a hub document is created with a parent, whatever the order of
\* documents of equal depth.
C15_ParentLinked ==
    [][pc = "push" =>
          \A id \in Created :
             LET p == remote'[id].opath
             IN NearestHub(Front(p), p) # NoPath => remote'[id].parent # NoParent]_vars

\* C18 (remote records are never deleted): no step of a pull or push run removes
\* a record or changes whether it is archived; a pull step adds no record and
\* changes records of the expanded set only, and only their bookkeeping
\* properties; a push step changes no record that existed before it.
C18_RemoteRecordsKept ==
    [][/\ Len(remote') >= Len(remote)
       /\ \A n \in DOMAIN remote :
             /\ remote'[n].archived = remote[n].archived
             /\ remote'[n].title = remote[n].title
             /\ remote'[n].parent = remote[n].parent
             /\ remote'[n].canvas = remote[n].canvas
       /\ pc # "push" =>
             /\ Created = {}
             /\ \A n \in DOMAIN remote : remote'[n] # remote[n] => n \in DOMAIN page_map
       /\ pc = "push" =>
             \A n \in DOMAIN remote : remote'[n] = remote[n]]_vars

\* A pull run has patched a page and a push run has created one.
C18_Witness ==
    /\ patched # {}
    /\ \E p \in DOMAIN files : PushStamped(p)

\* C21 (fast-path exit changes nothing): a run that returns early leaves the
\* vault, the persisted log and the store as they were, and takes no further
\* step: no page is written, no deletion pass and no navigation rebuild run.
C21_FastExitChangesNothing ==
    [][(pc = "idle" /\ runs' = runs + 1 /\ last_event' = "fastexit") =>
          /\ files' = files
          /\ canvases' = canvases
          /\ dirs' = dirs
          /\ disklog' = disklog
          /\ remote' = remote
          /\ pc' = "idle"]_vars

\* A run has returned early over a vault of two documents or more and a log
\* with entries.
C21_Witness ==
    /\ last_event = "fastexit"
    /\ Cardinality(DOMAIN files) >= 2
    /\ DOMAIN disklog.pages # {}

\* C22 (unretrievable parent degrades to root): no run ends in an error because
\* the parent of one of its pages could not be retrieved.
C22_LostParentDegrades == last_event # "lost"

\* C23 (root-first materialization order): when write_page handles a page,
\* every ancestor of it in the expanded set has been handled before in this
\* run, has its log entry, and the folder of its logged path exists.
C23_RootFirst ==
    [][pc = "write" =>
          \A n \in todo \ todo' :
             \A a \in DOMAIN page_map :
                Descendant(remote, n, a) =>
                    /\ a \notin todo
                    /\ a \in DOMAIN pages_log
                    /\ Front(pages_log[a].path) \in dirs]_vars

\* A run has moved a page and, after it, a child of that page, both logged at
\* other paths before.
C23_Witness ==
    /\ pc \in {"write", "delete"}
    /\ \E n \in DOMAIN page_map \ todo :
          LET a == remote[n].parent
          IN /\ a \in DOMAIN page_map
             /\ {a, n} \subseteq DOMAIN log_at_start.pages
             /\ {a, n} \subseteq DOMAIN pages_log
             /\ log_at_start.pages[a].path # pages_log[a].path
             /\ log_at_start.pages[n].path # pages_log[n].path

\* C24 (remote patch only on change): a step of write_page changes a remote
\* page only if it is the page being handled and that page has no log entry,
\* or its canonical path differs from the logged path, or its being a root
\* differs from what the log records.
C24_PatchOnlyOnChange ==
    [][pc = "write" =>
          \A n \in DOMAIN remote :
             remote'[n] # remote[n] =>
                /\ n \in todo \ todo'
                /\ \/ n \notin DOMAIN pages_log
                   \/ pages_log[n].path # CanonPath(n)
                   \/ (remote[n].parent = NoParent) # (pages_log[n].parent_id = NoParent)]_vars

\* A run has rewritten the document of a logged live page without patching it.
C24_Witness ==
    /\ pc \in {"write", "delete"}
    /\ \E n \in written \ patched :
          /\ Live(n)
          /\ n \in DOMAIN log_at_start.pages
          /\ log_at_start.pages[n].last_edited # remote[n].edited

\* The log the run loaded records for page n the edit time the store showed
\* when the run started: the entry holds the time after the last patch.
LoggedTimeCurrent(n) ==
    /\ n \in DOMAIN log_at_start.pages
    /\ log_at_start.pages[n].last_edited = pre.remote[n].edited

\* C25 (post-bookkeeping timestamp): in a run that starts right after a
\* completed run, with no remote change in between, no page whose log entry
\* holds its current remote edit time has its document rewritten or is patched.
C25_NoSpuriousRewrite ==
    (pc # "idle" /\ follows_clean) =>
        \A n \in written \cup patched : ~LoggedTimeCurrent(n)

\* C26 (destination conflicts during a move): when write_page handles page n,
\* in a run that started from a consistent vault, every other live page that
\* had its document before the step still has a document after it.
C26_OccupantKept ==
    [][(pc = "write" /\ GoodBefore) =>
          \A n \in todo \ todo' :
             \A p \in DOMAIN files :
                LET m == files[p].owner
                IN (m # n /\ Live(m) /\ m \in DOMAIN pages_log /\ pages_log[m].path = p)
                      => \E q \in DOMAIN files' : files'[q].owner = m]_vars

\* The lines of body c that are neither empty nor part of a Siblings block.
RECURSIVE OwnLines(_)
OwnLines(c) ==
    IF c = << >> THEN << >>
    ELSE IF c[1] = BlankLine THEN OwnLines(Tail(c))
    ELSE <<c[1]>> \o OwnLines(Tail(c))

HubBody == files[<<1, 1>>].body

\* C27 (navigation rebuild is idempotent, preserves foreign content): a hub
\* document that held no Siblings heading keeps, after any number of rebuilds,
\* every non-empty line it had, in order, before the generated block.
C27_ForeignContentKept ==
    (runs >= 1 /\ \A i \in DOMAIN pre.files[<<1, 1>>].body :
                     pre.files[<<1, 1>>].body[i] # HeadLine) =>
        LET own == OwnLines(pre.files[<<1, 1>>].body)
        IN /\ Len(HubBody) >= Len(own)
           /\ SubSeq(OwnLines(HubBody), 1, Len(own)) = own

C29_NoDuplicateOfPulled ==
    [][pc = "push" =>
          \A id \in Created :
             LET doc == files[remote'[id].opath]
             IN doc.owner = NoId \/ ~Live(doc.owner)]_vars

\* C30 (no remote change is permanently missed): after a completed pull run,
\* every live page that has no log entry, or whose edit time differs from the
\* logged one, was edited strictly after the committed watermark, so that the
\* next delta query returns it.
C30_NothingMissed ==
    (pc = "idle" /\ last_event = "completed") =>
        \A n \in DOMAIN remote :
            (/\ Live(n)
             /\ \/ n \notin DOMAIN disklog.pages
                \/ disklog.pages[n].last_edited # remote[n].edited)
               => remote[n].edited > disklog.last_pull

\* C31 (the remote path property tracks the log): after a completed pull run
\* that started from a consistent vault and left every logged path naming the
\* document of its page, every live page whose document the run has written
\* and whose logged path is its canonical path carries that path in its remote
\* path property; this includes the descendants of a moved page that the run
\* materialized.
C31_PathPropertyTracksLog ==
    (Completed /\ GoodBefore /\ LogOnDisk /\ DistinctSiblings(remote)) =>
        \A n \in written :
            (/\ Live(n)
             /\ n \in DOMAIN disklog.pages
             /\ disklog.pages[n].path = CanonPath(n))
                => remote[n].opath = disklog.pages[n].path

====
